---------------------------- MODULE Spec2Model ----------------------------
(***************************************************************************)
(* Model of smooth::feedback::solveQP and polishQP (qp.hpp), dense path,   *)
(* with the LDLTLapack factorization facade (internal/ldlt_lapack.hpp).    *)
(*                                                                         *)
(* Scalars are exact rationals <<num, den>> (den > 0, lowest terms); the   *)
(* IEEE infinities that may appear in the bounds l and u are <<1, 0>> and  *)
(* <<-1, 0>>, and <<0, 0>> is the NaN that inf - inf produces.  Vectors    *)
(* are sequences of scalars, matrices are sequences of rows.               *)
(***************************************************************************)
EXTENDS Integers, Sequences, FiniteSets, TLC

(***************************************************************************)
(* Bounds of the model.                                                    *)
(***************************************************************************)
\* largest max_iter drawn
MaxIterCap == 5
\* largest stop_check_iter drawn
MaxK == 3
\* largest polish_iter drawn
MaxPolishIter == 2
\* caps on the number of loop iterations explored (the loop itself may not
\* end): MaxSteps for the problems with one variable and one constraint,
\* MaxStepsLarge for the larger ones
MaxSteps == 6
MaxStepsLarge == 3

\* Width of the loop counter `auto i = 0u` (unsigned int).  The code's width
\* is 32 bits; the model scales it to 2 bits so that wrap-around is reachable.
\* max_iter and stop_check_iter (uint64_t) are wider than the counter.
UIntBits == 2

UIntMod == 2 ^ UIntBits

(***************************************************************************)
(* Exact rational arithmetic (the Scalar type, without rounding).          *)
(***************************************************************************)
Abs(a) == IF a < 0 THEN -a ELSE a

RECURSIVE GCD(_, _)
GCD(a, b) == IF b = 0 THEN a ELSE GCD(b, a % b)

Rat(n, d) ==
  LET g == GCD(Abs(n), Abs(d))
      s == IF d < 0 THEN -1 ELSE 1
  IN  <<(s * n) \div g, (s * d) \div g>>

Zero == <<0, 1>>
One == <<1, 1>>
PInf == <<1, 0>>
NInf == <<-1, 0>>
NaN == <<0, 0>>

IsFinite(a) == a[2] # 0

RNeg(a) == <<-a[1], a[2]>>
RAdd(a, b) ==
  IF a[2] = 1 /\ b[2] = 1 THEN <<a[1] + b[1], 1>>
  ELSE LET g == GCD(a[2], b[2])
       IN  Rat(a[1] * (b[2] \div g) + b[1] * (a[2] \div g), (a[2] \div g) * b[2])
RSub(a, b) == RAdd(a, RNeg(b))
RMul(a, b) ==
  IF a[2] = 1 /\ b[2] = 1 THEN <<a[1] * b[1], 1>>
  ELSE LET g1 == GCD(Abs(a[1]), b[2])
           g2 == GCD(Abs(b[1]), a[2])
       IN  Rat((a[1] \div g1) * (b[1] \div g2), (a[2] \div g2) * (b[2] \div g1))
RInv(a) == Rat(a[2], a[1])
RDiv(a, b) == RMul(a, RInv(b))
\* comparisons by cross-multiplication, also right for the infinities
CmpGCD(a, b) == IF a[2] = 0 /\ b[2] = 0 THEN 1 ELSE GCD(a[2], b[2])
RLt(a, b) == a[1] * (b[2] \div CmpGCD(a, b)) < b[1] * (a[2] \div CmpGCD(a, b))
RLe(a, b) == a[1] * (b[2] \div CmpGCD(a, b)) <= b[1] * (a[2] \div CmpGCD(a, b))
RAbs(a) == <<Abs(a[1]), a[2]>>
RMax(a, b) == IF RLt(a, b) THEN b ELSE a
RMin(a, b) == IF RLt(b, a) THEN b ELSE a

(***************************************************************************)
(* Vectors and matrices (Eigen expressions used by the solver).            *)
(***************************************************************************)
\* a vector built entry by entry, as an explicit tuple
Vec(f) == <<>> \o f

VAdd(v, w) == Vec([j \in DOMAIN v |-> RAdd(v[j], w[j])])
VSub(v, w) == Vec([j \in DOMAIN v |-> RSub(v[j], w[j])])
VScale(c, v) == Vec([j \in DOMAIN v |-> RMul(c, v[j])])
VZero(k) == Vec([j \in 1..k |-> Zero])

RECURSIVE Dot(_, _)
Dot(v, w) == IF v = <<>> THEN Zero
             ELSE RAdd(RMul(Head(v), Head(w)), Dot(Tail(v), Tail(w)))

\* lpNorm<Eigen::Infinity>
RECURSIVE norm(_)
norm(v) == IF v = <<>> THEN Zero ELSE RMax(RAbs(Head(v)), norm(Tail(v)))

MatVec(Mx, v) == Vec([r \in DOMAIN Mx |-> Dot(Mx[r], v)])
\* transpose of a matrix with c columns
Transpose(Mx, c) == Vec([j \in 1..c |-> Vec([r \in DOMAIN Mx |-> Mx[r][j]])])

\* v without its j-th entry
Drop(v, j) == SubSeq(v, 1, j - 1) \o SubSeq(v, j + 1, Len(v))
\* Mx without row r and column c
Minor(Mx, r, c) == Vec([a \in 1..(Len(Mx) - 1) |-> Drop(Drop(Mx, r)[a], c)])

\* determinant by expansion along the first row, written out for 2 and 3 rows
Det2(Mx) == RSub(RMul(Mx[1][1], Mx[2][2]), RMul(Mx[1][2], Mx[2][1]))
Det3(Mx) ==
  RAdd(RSub(RMul(Mx[1][1], Det2(Minor(Mx, 1, 1))),
            RMul(Mx[1][2], Det2(Minor(Mx, 1, 2)))),
       RMul(Mx[1][3], Det2(Minor(Mx, 1, 3))))
RECURSIVE Det(_)
RECURSIVE DetRow(_, _)
Det(Mx) ==
  IF Len(Mx) = 0 THEN One
  ELSE IF Len(Mx) = 1 THEN Mx[1][1]
  ELSE IF Len(Mx) = 2 THEN Det2(Mx)
  ELSE IF Len(Mx) = 3 THEN Det3(Mx)
  ELSE DetRow(Mx, Len(Mx))
DetRow(Mx, c) ==
  IF c = 0 THEN Zero
  ELSE LET t == RMul(Mx[1][c], Det(Minor(Mx, 1, c)))
       IN  RAdd(IF c % 2 = 1 THEN t ELSE RNeg(t), DetRow(Mx, c - 1))

\* inverse of a matrix (adjugate over determinant); <<>> when it is singular
Inverse(Mx) ==
  LET d == Det(Mx)
  IN  IF d = Zero THEN <<>>
      ELSE Vec([r \in DOMAIN Mx |->
             Vec([c \in DOMAIN Mx |->
               LET t == RDiv(Det(Minor(Mx, c, r)), d)
               IN  IF (r + c) % 2 = 0 THEN t ELSE RNeg(t)])])

\* the symmetric matrix whose upper triangle is that of Mx (UPLO = 'U',
\* selfadjointView<Eigen::Upper>)
SymUpper(Mx) ==
  Vec([r \in DOMAIN Mx |->
    Vec([c \in DOMAIN Mx |-> IF r <= c THEN Mx[r][c] ELSE Mx[c][r]])])

(***************************************************************************)
(* Problem, parameters, solution.                                          *)
(*   pbm = [P, q, A, l, u]      QuadraticProgram                           *)
(*   prm = [alpha, rho, sigma, eps_abs, eps_rel, eps_primal_inf,           *)
(*          eps_dual_inf, max_iter, stop_check_iter, polish,               *)
(*          polish_iter, delta]  SolverParams                              *)
(*   sol = [code, primal, dual]  Solution                                  *)
(***************************************************************************)
ExitCode == {"Optimal", "PolishFailed", "PrimalInfeasible", "DualInfeasible",
             "MaxIterations", "Unknown"}

\* n = pbm.A.cols(), m = pbm.A.rows()
Cols(pbm) == Len(pbm.q)
Rows(pbm) == Len(pbm.l)

\* IEEE subtraction on bounds that may be infinite
ExtSub(a, b) ==
  IF IsFinite(a) /\ IsFinite(b) THEN RSub(a, b)
  ELSE IF IsFinite(b) THEN a
  ELSE IF IsFinite(a) THEN RNeg(b)
  ELSE IF a = b THEN NaN ELSE a

\* (pbm.u - pbm.l).minCoeff() < 0.  Eigen leaves minCoeff unspecified when a
\* coefficient is NaN: nanLess is the outcome of the comparison in that case.
MinCoeffNegative(pbm, nanLess) ==
  LET d == Vec([j \in DOMAIN pbm.l |-> ExtSub(pbm.u[j], pbm.l[j])])
  IN  IF \E j \in DOMAIN d : d[j] = NaN THEN nanLess
      ELSE \E j \in DOMAIN d : RLt(d[j], Zero)

\* faulty variant: omits the test of u against -inf
FeasibleSetEmptyNoUTest(pbm, nanLess) ==
  \/ MinCoeffNegative(pbm, nanLess)
  \/ \E j \in DOMAIN pbm.l : pbm.l[j] = PInf

\* "check that feasible set is nonempty"
FeasibleSetEmpty(pbm, nanLess) ==
  \/ MinCoeffNegative(pbm, nanLess)
  \/ \E j \in DOMAIN pbm.l : pbm.l[j] = PInf
  \/ \E j \in DOMAIN pbm.u : pbm.u[j] = NInf

\* the square system matrix H (dense branch).  The bottom left block is never
\* written by the code and never read by the factorization (UPLO = 'U').
KKTMatrix(pbm, prm) ==
  LET n == Cols(pbm)
      m == Rows(pbm)
  IN  Vec([r \in 1..(n + m) |->
        Vec([c \in 1..(n + m) |->
          IF r <= n /\ c <= n
            THEN IF r = c THEN RAdd(pbm.P[r][c], prm.sigma) ELSE pbm.P[r][c]
          ELSE IF r <= n THEN pbm.A[c - n][r]
          ELSE IF r = c THEN RDiv(RNeg(One), prm.rho)
          ELSE Zero])])

\* faulty variant: never reports a failed factorization
LDLTLapackInfoAlwaysZero(Mx) ==
  LET S == SymUpper(Mx)
  IN  [info |-> 0, Ainv |-> IF Det(S) = Zero THEN S ELSE Inverse(S)]

\* LDLTLapack constructor: factorization of the symmetric matrix given by the
\* upper triangle of Mx.  info is 0 on success and positive when the matrix is
\* singular; Ainv stands for the factors AF_, IPIV_ that solve() reuses.
LDLTLapack(Mx) ==
  LET S == SymUpper(Mx)
  IN  IF Det(S) = Zero THEN [info |-> 1, Ainv |-> <<>>]
      ELSE [info |-> 0, Ainv |-> Inverse(S)]

\* LDLTLapack::solve
Solve(ldlt, b) == MatVec(ldlt.Ainv, b)

\* cwiseMax(l).cwiseMin(u)
Clip(v, l, u) == Vec([j \in DOMAIN v |-> RMin(RMax(v[j], l[j]), u[j])])

\* x, y, z before the first iteration
InitialIterate(pbm, hot) ==
  IF hot.has_value
    THEN [x |-> hot.primal, y |-> hot.dual, z |-> MatVec(pbm.A, hot.primal)]
    ELSE [x |-> VZero(Cols(pbm)), y |-> VZero(Rows(pbm)), z |-> VZero(Rows(pbm))]

\* faulty variant: the dual step uses z_tilde in place of the relaxed z_interp
AdmmIterationDualFromZTilde(pbm, prm, ldlt, x, y, z) ==
  LET n == Cols(pbm)
      m == Rows(pbm)
      h == VSub(VScale(prm.sigma, x), pbm.q)
             \o VSub(z, VScale(RInv(prm.rho), y))
      p == Solve(ldlt, h)
      z_tilde == VAdd(z, VScale(RInv(prm.rho), VSub(SubSeq(p, n + 1, n + m), y)))
      x_next == VAdd(VScale(prm.alpha, SubSeq(p, 1, n)),
                     VScale(RSub(One, prm.alpha), x))
      z_interp == VAdd(VScale(prm.alpha, z_tilde), VScale(RSub(One, prm.alpha), z))
      z_next == Clip(VAdd(z_interp, VScale(RInv(prm.rho), y)), pbm.l, pbm.u)
      y_next == VAdd(y, VScale(prm.rho, VSub(z_tilde, z_next)))
  IN  [x_next |-> x_next, y_next |-> y_next, z_next |-> z_next]

\* ADMM ITERATION: x_next, y_next, z_next from x, y, z
AdmmIteration(pbm, prm, ldlt, x, y, z) ==
  LET n == Cols(pbm)
      m == Rows(pbm)
      h == VSub(VScale(prm.sigma, x), pbm.q)
             \o VSub(z, VScale(RInv(prm.rho), y))
      p == Solve(ldlt, h)
      z_tilde == VAdd(z, VScale(RInv(prm.rho), VSub(SubSeq(p, n + 1, n + m), y)))
      x_next == VAdd(VScale(prm.alpha, SubSeq(p, 1, n)),
                     VScale(RSub(One, prm.alpha), x))
      z_interp == VAdd(VScale(prm.alpha, z_tilde), VScale(RSub(One, prm.alpha), z))
      z_next == Clip(VAdd(z_interp, VScale(RInv(prm.rho), y)), pbm.l, pbm.u)
      y_next == VAdd(y, VScale(prm.rho, VSub(z_interp, z_next)))
  IN  [x_next |-> x_next, y_next |-> y_next, z_next |-> z_next]

\* faulty variant: checks at the first iteration of every period
CheckDueAtPeriodStart(i, K) == i % K = 0

\* i % prm.stop_check_iter == prm.stop_check_iter - 1
CheckDue(i, K) == i % K = K - 1

\* OPTIMALITY
Optimality(pbm, prm, x, y, z) ==
  LET Px == MatVec(pbm.P, x)
      Ax == MatVec(pbm.A, x)
      Aty == MatVec(Transpose(pbm.A, Cols(pbm)), y)
      primal_scale == RMax(norm(Ax), norm(z))
      dual_scale == RMax(norm(Px), RMax(norm(pbm.q), norm(Aty)))
  IN  /\ RLe(norm(VSub(Ax, z)), RAdd(prm.eps_abs, RMul(prm.eps_rel, primal_scale)))
      /\ RLe(norm(VAdd(VAdd(Px, pbm.q), Aty)),
             RAdd(prm.eps_abs, RMul(prm.eps_abs, dual_scale)))

\* PRIMAL INFEASIBILITY
PrimalInfeasibility(pbm, prm, dy) ==
  LET dy_norm == norm(dy)
      thr == RMul(prm.eps_primal_inf, dy_norm)
      At_dy_norm == norm(MatVec(Transpose(pbm.A, Cols(pbm)), dy))
      \* an infinite bound that contributes +inf to the sum: no certificate
      broken == \E j \in DOMAIN dy :
                  \/ pbm.u[j] = PInf /\ RLt(thr, dy[j])
                  \/ pbm.l[j] = NInf /\ RLt(dy[j], RNeg(thr))
      term(j) == RAdd(IF pbm.u[j] # PInf
                        THEN RMul(pbm.u[j], RMax(Zero, dy[j])) ELSE Zero,
                      IF pbm.l[j] # NInf
                        THEN RMul(pbm.l[j], RMin(Zero, dy[j])) ELSE Zero)
      u_dyp_plus_l_dyn == Dot(Vec([j \in DOMAIN dy |-> term(j)]),
                              Vec([j \in DOMAIN dy |-> One]))
  IN  ~broken /\ RLt(RMax(At_dy_norm, u_dyp_plus_l_dyn), thr)

\* DUAL INFEASIBILITY
DualInfeasibility(pbm, prm, dx) ==
  LET dx_norm == norm(dx)
      thr == RMul(prm.eps_dual_inf, dx_norm)
      Adx == MatVec(pbm.A, dx)
  IN  /\ RLe(norm(MatVec(pbm.P, dx)), thr)
      /\ RLe(Dot(pbm.q, dx), thr)
      /\ \A j \in DOMAIN Adx :
           IF pbm.u[j] = PInf THEN RLe(RNeg(thr), Adx[j])
           ELSE IF pbm.l[j] = NInf THEN RLe(Adx[j], thr)
           ELSE RLt(RAbs(Adx[j]), thr)

\* faulty variant: the certificates are tried before the optimality test
StoppingCriteriaCertificatesFirst(pbm, prm, i, x, y, z, x_next, y_next) ==
  IF ~CheckDue(i, prm.stop_check_iter) THEN "none"
  ELSE IF PrimalInfeasibility(pbm, prm, VSub(y_next, y)) THEN "PrimalInfeasible"
  ELSE IF DualInfeasibility(pbm, prm, VSub(x_next, x)) THEN "DualInfeasible"
  ELSE IF Optimality(pbm, prm, x, y, z) THEN "Optimal"
  ELSE "none"

\* CHECK STOPPING CRITERIA: the exit taken by the check block, "none" when the
\* check is not due at counter value i or no criterion holds.  The criteria are
\* tried in the order of the code.
StoppingCriteria(pbm, prm, i, x, y, z, x_next, y_next) ==
  IF ~CheckDue(i, prm.stop_check_iter) THEN "none"
  ELSE IF Optimality(pbm, prm, x, y, z) THEN "Optimal"
  ELSE IF PrimalInfeasibility(pbm, prm, VSub(y_next, y)) THEN "PrimalInfeasible"
  ELSE IF DualInfeasibility(pbm, prm, VSub(x_next, x)) THEN "DualInfeasible"
  ELSE "none"

(***************************************************************************)
(* polishQP                                                                *)
(***************************************************************************)
\* indices idx..m of dual, increasing, with dual[idx] < 0 (neg) or > 0 (~neg)
RECURSIVE ActiveFrom(_, _, _)
ActiveFrom(dual, idx, neg) ==
  IF idx > Len(dual) THEN <<>>
  ELSE (IF (neg /\ RLt(dual[idx], Zero)) \/ (~neg /\ RLt(Zero, dual[idx]))
          THEN <<idx>> ELSE <<>>) \o ActiveFrom(dual, idx + 1, neg)

\* faulty variant: one write position for both sets, so LU_idx lists the
\* active indices in the order of the constraints
ActiveSetsOneCounter(dual) ==
  LET L == ActiveFrom(dual, 1, TRUE)
      U == ActiveFrom(dual, 1, FALSE)
      All == {j \in DOMAIN dual : dual[j] # Zero}
      RECURSIVE Sorted(_)
      Sorted(S) == IF S = {} THEN <<>>
                   ELSE LET lo == CHOOSE j \in S : \A k \in S : j <= k
                        IN  <<lo>> \o Sorted(S \ {lo})
  IN  [nl |-> Len(L), nu |-> Len(U), LU_idx |-> Sorted(All)]

\* FIND ACTIVE CONSTRAINT SETS: nl, nu and LU_idx (indices are 1-based here)
ActiveSets(dual) ==
  LET L == ActiveFrom(dual, 1, TRUE)
      U == ActiveFrom(dual, 1, FALSE)
  IN  [nl |-> Len(L), nu |-> Len(U), LU_idx |-> L \o U]

\* FORM REDUCED SYSTEMS: H (unperturbed), Hp (perturbed by delta) and h
ReducedSystem(pbm, prm, act) ==
  LET n == Cols(pbm)
      na == act.nl + act.nu
      H == Vec([r \in 1..(n + na) |->
             Vec([c \in 1..(n + na) |->
               IF r <= n /\ c <= n THEN pbm.P[r][c]
               ELSE IF r <= n THEN pbm.A[act.LU_idx[c - n]][r]
               ELSE Zero])])
      Hp == Vec([r \in 1..(n + na) |->
              Vec([c \in 1..(n + na) |->
                IF r # c THEN H[r][c]
                ELSE IF r <= n THEN RAdd(H[r][c], prm.delta)
                ELSE RSub(H[r][c], prm.delta)])])
      h == Vec([j \in 1..(n + na) |->
             IF j <= n THEN RNeg(pbm.q[j])
             ELSE IF j <= n + act.nl THEN pbm.l[act.LU_idx[j - n]]
             ELSE pbm.u[act.LU_idx[j - n]]])
  IN  [H |-> H, Hp |-> Hp, h |-> h]

\* faulty variant: the loop test follows the body (do ... while), so one
\* solve is made even when polish_iter is 0
RECURSIVE RefineTestAfterBody(_, _, _, _, _)
RefineTestAfterBody(ldlt, H, h, st, polish_iter) ==
  LET nxt == [t_hat |-> VAdd(st.t_hat,
                            Solve(ldlt, VSub(h, MatVec(SymUpper(H), st.t_hat)))),
              solves |-> st.solves + 1]
  IN  IF nxt.solves >= polish_iter THEN nxt
      ELSE RefineTestAfterBody(ldlt, H, h, nxt, polish_iter)

\* ITERATIVE REFINEMENT: the loop
\*   for (i = 0; i != polish_iter; ++i)
\*     t_hat += ldlt.solve(h - H.selfadjointView<Upper>() * t_hat)
\* from the state st = [t_hat, solves], where solves is the loop counter and
\* the number of calls of ldlt.solve made
RECURSIVE Refine(_, _, _, _, _)
Refine(ldlt, H, h, st, polish_iter) ==
  IF st.solves = polish_iter THEN st
  ELSE Refine(ldlt, H, h,
              [t_hat |-> VAdd(st.t_hat,
                              Solve(ldlt, VSub(h, MatVec(SymUpper(H), st.t_hat)))),
               solves |-> st.solves + 1],
              polish_iter)

\* faulty variant: copies all of t_hat into the primal
UpdateSolutionWholeVector(sol, n, act, t_hat) ==
  [sol EXCEPT
     !.primal = t_hat,
     !.dual = Vec([j \in DOMAIN sol.dual |->
                IF \E a \in DOMAIN act.LU_idx : act.LU_idx[a] = j
                  THEN t_hat[n + (CHOOSE a \in DOMAIN act.LU_idx : act.LU_idx[a] = j)]
                  ELSE sol.dual[j]])]

\* UPDATE SOLUTION
UpdateSolution(sol, n, act, t_hat) ==
  [sol EXCEPT
     !.primal = SubSeq(t_hat, 1, n),
     !.dual = Vec([j \in DOMAIN sol.dual |->
                IF \E a \in DOMAIN act.LU_idx : act.LU_idx[a] = j
                  THEN t_hat[n + (CHOOSE a \in DOMAIN act.LU_idx : act.LU_idx[a] = j)]
                  ELSE sol.dual[j]])]

\* faulty variant: resets the solution when the factorization fails
polishQPResetOnFailure(pbm, sol, prm) ==
  LET act == ActiveSets(sol.dual)
      sys == ReducedSystem(pbm, prm, act)
      ldlt == LDLTLapack(sys.Hp)
  IN  IF ldlt.info # 0
        THEN [sol |-> [code |-> "PolishFailed",
                       primal |-> VZero(Cols(pbm)), dual |-> VZero(Rows(pbm))],
              info |-> ldlt.info, solves |-> 0, act |-> act, t_hat |-> <<>>]
        ELSE LET ref == Refine(ldlt, sys.H, sys.h,
                               [t_hat |-> VZero(Cols(pbm) + act.nl + act.nu),
                                solves |-> 0],
                               prm.polish_iter)
             IN  [sol |-> UpdateSolution(sol, Cols(pbm), act, ref.t_hat),
                  info |-> 0, solves |-> ref.solves,
                  act |-> act, t_hat |-> ref.t_hat]

\* polishQP(pbm, sol, prm): the solution it leaves in sol, with the status of
\* the factorization of Hp, the number of solves against it, the active sets
\* found and the refined t_hat
polishQP(pbm, sol, prm) ==
  LET act == ActiveSets(sol.dual)
      sys == ReducedSystem(pbm, prm, act)
      ldlt == LDLTLapack(sys.Hp)
  IN  IF ldlt.info # 0
        THEN [sol |-> [sol EXCEPT !.code = "PolishFailed"],
              info |-> ldlt.info, solves |-> 0, act |-> act, t_hat |-> <<>>]
        ELSE LET ref == Refine(ldlt, sys.H, sys.h,
                               [t_hat |-> VZero(Cols(pbm) + act.nl + act.nu),
                                solves |-> 0],
                               prm.polish_iter)
             IN  [sol |-> UpdateSolution(sol, Cols(pbm), act, ref.t_hat),
                  info |-> 0, solves |-> ref.solves,
                  act |-> act, t_hat |-> ref.t_hat]

(***************************************************************************)
(* Inputs explored: problems, hotstarts and parameters.                    *)
(***************************************************************************)
Q(a) == <<a, 1>>
Quarter == <<1, 4>>

Pbm(P, q, A, l, u) == [P |-> P, q |-> q, A |-> A, l |-> l, u |-> u]

Eye2 == <<<<One, Zero>>, <<Zero, One>>>>
Zero2 == <<<<Zero, Zero>>, <<Zero, Zero>>>>

Problems ==
  { \* scalar, unconstrained: minimum at x = 2
    Pbm(<<<<Q(2)>>>>, <<Q(-4)>>, <<<<One>>>>, <<NInf>>, <<PInf>>),
    \* scalar, box 1 <= x <= 2: minimum at x = 1 with y = -2
    Pbm(<<<<Q(2)>>>>, <<Zero>>, <<<<One>>>>, <<One>>, <<Q(2)>>),
    \* empty box l > u
    Pbm(Eye2, <<Zero, Zero>>, Eye2, <<One, One>>, <<Zero, Zero>>),
    \* unbounded below
    Pbm(Zero2, <<Q(-1), Zero>>, <<<<Zero, One>>>>, <<Zero>>, <<PInf>>),
    \* equality constraint x1 + x2 = 1: minimum at (0, 1) with y = 1
    Pbm(Eye2, <<Q(-1), Q(-2)>>, <<<<One, One>>>>, <<One>>, <<One>>),
    \* x >= 1 and x <= 0: infeasible, every single bound pair is consistent
    Pbm(<<<<One>>>>, <<Zero>>, <<<<One>>, <<One>>>>, <<One, NInf>>, <<PInf, Zero>>),
    \* P given by its upper triangle only (strictly lower entry left at 0)
    Pbm(<<<<One, One>>, <<Zero, Q(2)>>>>, <<Q(-1), Zero>>, <<<<One, Zero>>>>,
        <<Zero>>, <<Q(2)>>),
    \* the same P given in full
    Pbm(<<<<One, One>>, <<One, Q(2)>>>>, <<Q(-1), Zero>>, <<<<One, Zero>>>>,
        <<Zero>>, <<Q(2)>>),
    \* l = +inf
    Pbm(<<<<One>>>>, <<Zero>>, <<<<One>>>>, <<PInf>>, <<PInf>>),
    \* u = -inf
    Pbm(<<<<One>>>>, <<Zero>>, <<<<One>>>>, <<NInf>>, <<NInf>>),
    Pbm(<<<<One>>>>, <<Zero>>, <<<<One>>, <<One>>>>, <<Zero, Zero>>, <<One, NInf>>),
    \* P not positive semi-definite: P + sigma I is singular for sigma = 1
    Pbm(<<<<Q(-1)>>>>, <<One>>, <<<<Zero>>>>, <<Zero>>, <<One>>),
    \* linear cost 0 on 0 <= x <= 1
    Pbm(<<<<Zero>>>>, <<Zero>>, <<<<One>>>>, <<Zero>>, <<One>>),
    \* 1 <= 0 * x <= 2 with cost -x: infeasible and unbounded below
    Pbm(<<<<Zero>>>>, <<Q(-1)>>, <<<<Zero>>>>, <<One>>, <<Q(2)>>) }

\* cap on the iterations explored for a problem
StepCap(pbm) == IF Cols(pbm) + Rows(pbm) = 2 THEN MaxSteps ELSE MaxStepsLarge

NoHotstart == [has_value |-> FALSE, primal |-> <<>>, dual |-> <<>>]
Hot(primal, dual) == [has_value |-> TRUE, primal |-> primal, dual |-> dual]

HotPool ==
  { Hot(<<Q(2)>>, <<Zero>>), Hot(<<One>>, <<Q(-2)>>),
    Hot(<<Zero, One>>, <<One>>), Hot(<<One, Zero>>, <<Zero>>),
    Hot(<<One>>, <<Q(-1), One>>) }

\* Hotstarts of the problem's dimensions whose dual does not mark an infinite
\* bound as active (the polisher would read that bound into its right-hand side).
Hotstarts(pbm) ==
  {NoHotstart} \cup
  { ht \in HotPool :
      /\ Len(ht.primal) = Cols(pbm)
      /\ Len(ht.dual) = Rows(pbm)
      /\ \A j \in DOMAIN ht.dual :
           /\ RLt(ht.dual[j], Zero) => IsFinite(pbm.l[j])
           /\ RLt(Zero, ht.dual[j]) => IsFinite(pbm.u[j]) }

\* polish, polish_iter, delta
PolishOptions ==
  {<<FALSE, MaxPolishIter, Quarter>>, <<TRUE, 1, Zero>>} \cup
  { <<TRUE, pit, Quarter>> : pit \in 0..MaxPolishIter }

ParamSet ==
  { [alpha |-> al, rho |-> One, sigma |-> sg,
     eps_abs |-> ep, eps_rel |-> ep,
     eps_primal_inf |-> <<1, 1024>>, eps_dual_inf |-> <<1, 1024>>,
     max_iter |-> mi, stop_check_iter |-> K,
     polish |-> po[1], polish_iter |-> po[2], delta |-> po[3]] :
       al \in {<<3, 2>>}, sg \in {One}, ep \in {<<1, 1024>>, Quarter},
       mi \in 0..MaxIterCap, K \in 1..MaxK, po \in PolishOptions }

(***************************************************************************)
(* The state machine: one call of solveQP.                                 *)
(***************************************************************************)
VARIABLES
  pbm,        \* the problem (const Pbm &)
  prm,        \* the parameters (const SolverParams &)
  hotstart,   \* the optional initial guess
  pc,         \* position in solveQP: preflight, factorize, loop, check, polish, done
  H,          \* the system matrix, <<>> until it is built
  ldlt,       \* its factorization, <<>> until it is computed
  i,          \* the loop counter (unsigned int)
  x, y, z,    \* the iterate
  x_next, y_next, z_next,  \* the result of the ADMM iteration in progress
  sol,        \* the solution returned (valid when pc = "done") or being polished
  iters,      \* history: number of loop iterations started (one solve each)
  log,        \* history: per loop iteration finished, [i, checked, exit]
  polished    \* history: per call of polishQP,
              \* [before, info, solves, act, t_hat]

vars == <<pbm, prm, hotstart, pc, H, ldlt, i, x, y, z, x_next, y_next, z_next,
          sol, iters, log, polished>>

inputs == <<pbm, prm, hotstart>>
iterate == <<x, y, z>>
next_iterate == <<x_next, y_next, z_next>>

Init ==
  /\ pbm \in Problems
  /\ hotstart \in Hotstarts(pbm)
  /\ prm \in ParamSet
  /\ pc = "preflight"
  /\ H = <<>>
  /\ ldlt = <<>>
  /\ i = 0
  /\ x = <<>> /\ y = <<>> /\ z = <<>>
  /\ x_next = <<>> /\ y_next = <<>> /\ z_next = <<>>
  /\ sol = [code |-> "Unknown", primal |-> <<>>, dual |-> <<>>]
  /\ iters = 0
  /\ log = <<>>
  /\ polished = <<>>

Return(code, primal, dual) ==
  /\ sol' = [code |-> code, primal |-> primal, dual |-> dual]
  /\ pc' = "done"

\* lines 240-244: the feasible set is empty
PreflightReject ==
  /\ pc = "preflight"
  /\ \E nanLess \in BOOLEAN : FeasibleSetEmpty(pbm, nanLess)
  /\ Return("PrimalInfeasible", <<>>, <<>>)
  /\ UNCHANGED <<inputs, H, ldlt, i, iterate, next_iterate, iters, log, polished>>

\* lines 240-283: the check passes and H is assembled
PreflightPass ==
  /\ pc = "preflight"
  /\ \E nanLess \in BOOLEAN : ~FeasibleSetEmpty(pbm, nanLess)
  /\ H' = KKTMatrix(pbm, prm)
  /\ pc' = "factorize"
  /\ UNCHANGED <<inputs, ldlt, i, iterate, next_iterate, sol, iters, log, polished>>

\* lines 285-289: the factorization of H fails
FactorizeFail ==
  /\ pc = "factorize"
  /\ ldlt' = LDLTLapack(H)
  /\ ldlt'.info # 0
  /\ Return("Unknown", <<>>, <<>>)
  /\ UNCHANGED <<inputs, H, i, iterate, next_iterate, iters, log, polished>>

\* lines 285-304: the factorization succeeds; x, y, z are initialized
FactorizeOk ==
  /\ pc = "factorize"
  /\ ldlt' = LDLTLapack(H)
  /\ ldlt'.info = 0
  /\ LET it == InitialIterate(pbm, hotstart)
     IN  x' = it.x /\ y' = it.y /\ z' = it.z
  /\ i' = 0
  /\ pc' = "loop"
  /\ UNCHANGED <<inputs, H, next_iterate, sol, iters, log, polished>>

\* lines 306-318: the loop condition holds; ADMM ITERATION
AdmmStep ==
  /\ pc = "loop"
  /\ i # prm.max_iter
  /\ iters < StepCap(pbm)
  /\ LET nx == AdmmIteration(pbm, prm, ldlt, x, y, z)
     IN  x_next' = nx.x_next /\ y_next' = nx.y_next /\ z_next' = nx.z_next
  /\ iters' = iters + 1
  /\ pc' = "check"
  /\ UNCHANGED <<inputs, H, ldlt, i, iterate, sol, log, polished>>

\* the exit the check block takes in the current iteration
Exit == StoppingCriteria(pbm, prm, i, x, y, z, x_next, y_next)

Logged(exit) ==
  Append(log, [i |-> i, checked |-> CheckDue(i, prm.stop_check_iter),
               exit |-> exit])

\* faulty variant: polishes whether or not prm.polish is set
CheckOptimalAlwaysPolish ==
  /\ pc = "check"
  /\ Exit = "Optimal"
  /\ log' = Logged("Optimal")
  /\ sol' = [code |-> "Optimal", primal |-> x, dual |-> y]
  /\ pc' = "polish"
  /\ UNCHANGED <<inputs, H, ldlt, i, iterate, next_iterate, iters, polished>>

\* faulty variant: the commit comes before the check block, so x_next, y_next,
\* z_next are tested and returned
CheckOptimalAfterCommit ==
  /\ pc = "check"
  /\ CheckDue(i, prm.stop_check_iter)
  /\ Optimality(pbm, prm, x_next, y_next, z_next)
  /\ log' = Logged("Optimal")
  /\ sol' = [code |-> "Optimal", primal |-> x_next, dual |-> y_next]
  /\ pc' = IF prm.polish THEN "polish" ELSE "done"
  /\ UNCHANGED <<inputs, H, ldlt, i, iterate, next_iterate, iters, polished>>

\* lines 322-338: the check finds the iterate optimal
CheckOptimal ==
  /\ pc = "check"
  /\ Exit = "Optimal"
  /\ log' = Logged("Optimal")
  /\ sol' = [code |-> "Optimal", primal |-> x, dual |-> y]
  /\ pc' = IF prm.polish THEN "polish" ELSE "done"
  /\ UNCHANGED <<inputs, H, ldlt, i, iterate, next_iterate, iters, polished>>

\* lines 322-368: the check finds a primal infeasibility certificate
CheckPrimalInfeasible ==
  /\ pc = "check"
  /\ Exit = "PrimalInfeasible"
  /\ log' = Logged("PrimalInfeasible")
  /\ Return("PrimalInfeasible", <<>>, <<>>)
  /\ UNCHANGED <<inputs, H, ldlt, i, iterate, next_iterate, iters, polished>>

\* lines 322-385: the check finds a dual infeasibility certificate
CheckDualInfeasible ==
  /\ pc = "check"
  /\ Exit = "DualInfeasible"
  /\ log' = Logged("DualInfeasible")
  /\ Return("DualInfeasible", <<>>, <<>>)
  /\ UNCHANGED <<inputs, H, ldlt, i, iterate, next_iterate, iters, polished>>

\* lines 322-391: no exit is taken; x, y, z are committed and i is incremented
Commit ==
  /\ pc = "check"
  /\ Exit = "none"
  /\ log' = Logged("none")
  /\ x' = x_next /\ y' = y_next /\ z' = z_next
  /\ i' = (i + 1) % UIntMod
  /\ pc' = "loop"
  /\ UNCHANGED <<inputs, H, ldlt, next_iterate, sol, iters, polished>>

\* line 393: the loop condition fails
LoopExit ==
  /\ pc = "loop"
  /\ i = prm.max_iter
  /\ Return("MaxIterations", x, y)
  /\ UNCHANGED <<inputs, H, ldlt, i, iterate, next_iterate, iters, log, polished>>

Polished(r) ==
  Append(polished, [before |-> sol, info |-> r.info, solves |-> r.solves,
                    act |-> r.act, t_hat |-> r.t_hat])

\* line 336 with lines 406-495: polishQP, the factorization of Hp fails
PolishFail ==
  /\ pc = "polish"
  /\ LET r == polishQP(pbm, sol, prm)
     IN  /\ r.info # 0
         /\ sol' = r.sol
         /\ polished' = Polished(r)
  /\ pc' = "done"
  /\ UNCHANGED <<inputs, H, ldlt, i, iterate, next_iterate, iters, log>>

\* line 336 with lines 406-509: polishQP, the solution is refined
PolishOk ==
  /\ pc = "polish"
  /\ LET r == polishQP(pbm, sol, prm)
     IN  /\ r.info = 0
         /\ sol' = r.sol
         /\ polished' = Polished(r)
  /\ pc' = "done"
  /\ UNCHANGED <<inputs, H, ldlt, i, iterate, next_iterate, iters, log>>

Next ==
  \/ PreflightReject
  \/ PreflightPass
  \/ FactorizeFail
  \/ FactorizeOk
  \/ AdmmStep
  \/ CheckOptimal
  \/ CheckPrimalInfeasible
  \/ CheckDualInfeasible
  \/ Commit
  \/ LoopExit
  \/ PolishFail
  \/ PolishOk

Spec == Init /\ [][Next]_vars

(***************************************************************************)
(* polishQP called on its own, with any solution of the problem's          *)
(* dimensions.                                                             *)
(***************************************************************************)
\* problems with finite bounds: one variable and two constraints, two
\* variables and one constraint
PolishProblems ==
  { Pbm(<<<<Q(2)>>>>, <<Q(-4)>>, <<<<One>>, <<Q(-1)>>>>,
        <<Zero, Q(-3)>>, <<Q(3), Zero>>),
    Pbm(<<<<One, One>>, <<Zero, Q(2)>>>>, <<Q(-1), Q(-2)>>, <<<<One, One>>>>,
        <<One>>, <<Q(2)>>) }

\* the entries drawn for the dual passed in
DualEntries == {Q(-1), Zero, Q(2)}

RECURSIVE VectorsOver(_, _)
VectorsOver(S, k) ==
  IF k = 0 THEN {<<>>}
  ELSE { Append(v, e) : v \in VectorsOver(S, k - 1), e \in S }

PolishInputs(pb) ==
  { [code |-> "Optimal", primal |-> pr, dual |-> du] :
      pr \in {VZero(Cols(pb)), Vec([j \in 1..Cols(pb) |-> One])},
      du \in VectorsOver(DualEntries, Rows(pb)) }

PolishParams ==
  { pr \in ParamSet :
      pr.polish /\ pr.max_iter = 0 /\ pr.stop_check_iter = 1
                /\ pr.eps_abs = Quarter }

InitPolish ==
  /\ pbm \in PolishProblems
  /\ prm \in PolishParams
  /\ hotstart = NoHotstart
  /\ sol \in PolishInputs(pbm)
  /\ pc = "polish"
  /\ H = <<>>
  /\ ldlt = <<>>
  /\ i = 0
  /\ x = <<>> /\ y = <<>> /\ z = <<>>
  /\ x_next = <<>> /\ y_next = <<>> /\ z_next = <<>>
  /\ iters = 0
  /\ log = <<>>
  /\ polished = <<>>

NextPolish ==
  \/ PolishFail
  \/ PolishOk

SpecPolish == InitPolish /\ [][NextPolish]_vars

(***************************************************************************)
(* solveQP as a function of its arguments: the result of the call, or code *)
(* "Running" when the loop has not ended after `fuel` iterations.          *)
(***************************************************************************)
RECURSIVE LoopResult(_, _, _, _, _, _, _, _)
LoopResult(pb, pr, fact, cnt, xx, yy, zz, fuel) ==
  IF cnt = pr.max_iter
    THEN [code |-> "MaxIterations", primal |-> xx, dual |-> yy]
  ELSE IF fuel = 0 THEN [code |-> "Running", primal |-> xx, dual |-> yy]
  ELSE LET nx == AdmmIteration(pb, pr, fact, xx, yy, zz)
           exit == StoppingCriteria(pb, pr, cnt, xx, yy, zz, nx.x_next, nx.y_next)
       IN  IF exit = "Optimal"
             THEN IF pr.polish
                    THEN polishQP(pb, [code |-> "Optimal", primal |-> xx,
                                       dual |-> yy], pr).sol
                    ELSE [code |-> "Optimal", primal |-> xx, dual |-> yy]
           ELSE IF exit # "none"
             THEN [code |-> exit, primal |-> <<>>, dual |-> <<>>]
           ELSE LoopResult(pb, pr, fact, (cnt + 1) % UIntMod,
                           nx.x_next, nx.y_next, nx.z_next, fuel - 1)

solveQP(pb, pr, hot) ==
  IF FeasibleSetEmpty(pb, FALSE)
    THEN [code |-> "PrimalInfeasible", primal |-> <<>>, dual |-> <<>>]
  ELSE LET fact == LDLTLapack(KKTMatrix(pb, pr))
           it == InitialIterate(pb, hot)
       IN  IF fact.info # 0
             THEN [code |-> "Unknown", primal |-> <<>>, dual |-> <<>>]
             ELSE LoopResult(pb, pr, fact, 0, it.x, it.y, it.z, StepCap(pb))

\* the state machine returns what the function computes
ResultIsSolveQP == pc = "done" => sol = solveQP(pbm, prm, hotstart)

(***************************************************************************)
(* Properties.                                                             *)
(***************************************************************************)
Empty(code) == [code |-> code, primal |-> <<>>, dual |-> <<>>]

\* the bounds leave no feasible z: u - l < 0 somewhere, or l = +inf, or u = -inf
InfeasibleBounds ==
  \E j \in DOMAIN pbm.l :
    pbm.l[j] = PInf \/ pbm.u[j] = NInf \/ RLt(pbm.u[j], pbm.l[j])

\* the symmetric matrix read from the upper triangle of Mx is singular
Singular(Mx) == Det(SymUpper(Mx)) = Zero

LastLog == log[Len(log)]

\* C1: a problem with min(u - l) < 0, some l[i] = +inf or some u[i] = -inf is
\* answered PrimalInfeasible with empty vectors, and on the way there H is never
\* built or factorized, no iteration is started and the polisher is not called,
\* whatever the parameters and the hotstart.
C1_PreflightRejection ==
  InfeasibleBounds =>
    /\ pc \in {"preflight", "done"}
    /\ H = <<>> /\ ldlt = <<>>
    /\ iters = 0 /\ log = <<>> /\ polished = <<>>
    /\ pc = "done" => sol = Empty("PrimalInfeasible")

C1_Witness ==
  /\ pc = "done" /\ sol.code = "PrimalInfeasible"
  /\ \E j \in DOMAIN pbm.u : pbm.u[j] = NInf
  /\ hotstart.has_value /\ prm.polish /\ prm.max_iter > 0

\* C2: solveQP starts at most max_iter iterations; when max_iter iterations
\* have been committed the loop ends, and MaxIterations is returned with the
\* committed x and y.
C2_IterationCap ==
  /\ iters <= prm.max_iter
  /\ (pc = "loop" /\ iters = prm.max_iter) => i = prm.max_iter
  /\ (pc = "done" /\ sol.code = "MaxIterations") =>
       sol.primal = x /\ sol.dual = y

\* C3: the code returned is one of the six exit codes; with PrimalInfeasible,
\* DualInfeasible or Unknown both vectors are empty; with Optimal, PolishFailed
\* or MaxIterations the primal has length n and the dual length m, and they are
\* the iterate x, y (MaxIterations, PolishFailed, Optimal without polish).
C3_CodeDeterminesVectors ==
  pc = "done" =>
    /\ sol.code \in ExitCode
    /\ sol.code \in {"PrimalInfeasible", "DualInfeasible", "Unknown"} =>
         sol.primal = <<>> /\ sol.dual = <<>>
    /\ sol.code \in {"Optimal", "PolishFailed", "MaxIterations"} =>
         /\ Len(sol.primal) = Cols(pbm) /\ Len(sol.dual) = Rows(pbm)
         /\ (sol.code # "Optimal" \/ polished = <<>>) =>
              sol.primal = x /\ sol.dual = y

C3_Witness ==
  /\ pc = "done" /\ sol.code = "Optimal" /\ polished # <<>>
  /\ Cols(pbm) = 2 /\ \E j \in DOMAIN y : y[j] # Zero

\* C4: when the factorization of H fails (the matrix is singular) solveQP
\* returns Unknown with empty vectors and has run no iteration, no check and
\* no polish; Unknown is returned in no other case.
C4_FactorizationFailure ==
  /\ (H # <<>> /\ pc # "factorize" /\ Singular(H)) =>
       /\ pc = "done" /\ sol = Empty("Unknown")
       /\ iters = 0 /\ log = <<>> /\ polished = <<>>
  /\ (pc = "done" /\ sol.code = "Unknown") => (H # <<>> /\ Singular(H))

C4_Witness ==
  pc = "done" /\ sol.code = "Unknown" /\ ldlt.info # 0 /\ Len(H) = Cols(pbm) + Rows(pbm)

\* C5: when the factorization of the perturbed reduced matrix Hp fails, the
\* polisher sets the code to PolishFailed, leaves primal and dual as they were
\* on entry (the iterate x, y found optimal) and performs no solve.
C5_PolishFailureKeepsSolution ==
  (/\ pc = "done" /\ polished # <<>>
   /\ Singular(ReducedSystem(pbm, prm, ActiveSets(y)).Hp)) =>
    /\ sol = [code |-> "PolishFailed", primal |-> x, dual |-> y]
    /\ polished[1].before = [code |-> "Optimal", primal |-> x, dual |-> y]
    /\ polished[1].solves = 0

C5_Witness ==
  /\ pc = "done" /\ sol.code = "PolishFailed"
  /\ \E j \in DOMAIN sol.primal : sol.primal[j] # Zero

\* the optimality test held in the check of the last iteration
OptimalityPassed ==
  /\ log # <<>> /\ LastLog.exit = "Optimal"
  /\ Optimality(pbm, prm, x, y, z)

\* C6: the polisher is called at most once, and it has been called when
\* solveQP returns exactly if the optimality test passed and prm.polish is set;
\* a polish whose factorization succeeds leaves the code Optimal; PolishFailed
\* needs prm.polish and a passed optimality test; without prm.polish the code
\* is never PolishFailed.
C6_PolishHandOff ==
  /\ Len(polished) <= 1
  /\ polished # <<>> => (prm.polish /\ OptimalityPassed)
  /\ pc = "done" =>
       /\ (Len(polished) = 1) <=> (prm.polish /\ OptimalityPassed)
       /\ (polished # <<>> /\ polished[1].info = 0) => sol.code = "Optimal"
       /\ sol.code = "PolishFailed" => (prm.polish /\ OptimalityPassed)
       /\ ~prm.polish => sol.code \in ExitCode \ {"PolishFailed"}

C6_Witness ==
  /\ pc = "done" /\ Len(polished) = 1 /\ polished[1].info = 0
  /\ sol.code = "Optimal" /\ iters > 1

\* max(0, A x - u) + max(0, l - A x), entry by entry
BoundViolation(Ax) ==
  Vec([j \in DOMAIN Ax |->
        RAdd(IF pbm.u[j] = PInf THEN Zero ELSE RMax(Zero, RSub(Ax[j], pbm.u[j])),
             IF pbm.l[j] = NInf THEN Zero ELSE RMax(Zero, RSub(pbm.l[j], Ax[j])))])

\* C7: a primal returned with code Optimal violates the bounds by at most
\* eps_abs + eps_rel * ||A x||_inf.
C7_FeasibleOnOptimal ==
  (pc = "done" /\ sol.code = "Optimal") =>
    LET Ax == MatVec(pbm.A, sol.primal)
    IN  RLe(norm(BoundViolation(Ax)),
            RAdd(prm.eps_abs, RMul(prm.eps_rel, norm(Ax))))

\* ||P x + q + A^T y||_inf
Stationarity(primal, dual) ==
  norm(VAdd(VAdd(MatVec(pbm.P, primal), pbm.q),
            MatVec(Transpose(pbm.A, Cols(pbm)), dual)))

\* C8: after a polish whose factorization succeeded the stationarity residual
\* of the polished primal, dual is not larger than that of the primal, dual
\* passed in.
C8_PolishMonotone ==
  (pc = "done" /\ polished # <<>> /\ polished[1].info = 0) =>
    RLe(Stationarity(sol.primal, sol.dual),
        Stationarity(polished[1].before.primal, polished[1].before.dual))

\* the problems that differ from pbm only below the diagonal of P: the lower
\* triangle mirrored from the upper one, and the lower triangle zero
LowerVariants ==
  { [pbm EXCEPT !.P = SymUpper(pbm.P)],
    [pbm EXCEPT !.P = Vec([r \in DOMAIN pbm.P |->
                        Vec([c \in DOMAIN pbm.P |->
                          IF c < r THEN Zero ELSE pbm.P[r][c]])])] }

\* C9: a problem that differs from pbm only in the strictly lower triangle of
\* P gets the same exit code, primal and dual, with the same parameters and
\* hotstart.
C9_UpperTriangleOnly ==
  pc = "done" =>
    \A other \in LowerVariants :
      LET r == solveQP(other, prm, hotstart)
      IN  r.code # "Running" => r = sol

\* C10: with K = stop_check_iter, the check block is evaluated in an iteration
\* exactly if its counter value i has i mod K = K - 1; an exit is taken only in
\* such an iteration, and not before K iterations were started; once the loop
\* was entered, solveQP returns after at least min(K, max_iter) solves.
C10_CheckSchedule ==
  LET K == prm.stop_check_iter
  IN  /\ \A k \in DOMAIN log :
           /\ log[k].checked <=> (log[k].i % K = K - 1)
           /\ log[k].exit # "none" => (log[k].i % K = K - 1 /\ k >= K)
      /\ (pc = "done" /\ log # <<>> /\ sol.code \notin {"MaxIterations"}) =>
           (LastLog.i % K = K - 1 /\ iters >= K)
      /\ (pc = "done" /\ ldlt # <<>> /\ ldlt.info = 0) =>
           iters >= (IF K < prm.max_iter THEN K ELSE prm.max_iter)

C10_Witness ==
  /\ pc = "done" /\ prm.stop_check_iter >= 2
  /\ sol.code \in {"Optimal", "PrimalInfeasible", "DualInfeasible"}
  /\ Len(log) = 2 * prm.stop_check_iter

\* no stopping criterion fires in the iteration with counter i: the check is
\* not due, or each of the three tests fails on x, y, z and the differences
NoExitTaken ==
  \/ i % prm.stop_check_iter # prm.stop_check_iter - 1
  \/ /\ ~Optimality(pbm, prm, x, y, z)
     /\ ~PrimalInfeasibility(pbm, prm, VSub(y_next, y))
     /\ ~DualInfeasibility(pbm, prm, VSub(x_next, x))

\* C11: the optimality test of a checking iteration is evaluated on the
\* current x, y, z, and an Optimal result carries that x and y, not x_next,
\* y_next; x, y, z change only at initialization and at the commit, which
\* follows the check block, is taken only when no exit is, and assigns x_next,
\* y_next, z_next.
C11_CheckBeforeCommit ==
  [][/\ (pc = "check" /\ pc' # "check" /\ sol'.code = "Optimal") =>
          /\ i % prm.stop_check_iter = prm.stop_check_iter - 1
          /\ Optimality(pbm, prm, x, y, z)
          /\ sol'.primal = x /\ sol'.dual = y
          /\ iterate' = iterate
     /\ iterate' # iterate =>
          \/ pc = "factorize"
          \/ /\ pc = "check" /\ NoExitTaken
             /\ iterate' = next_iterate
     /\ (pc' = "done" /\ sol'.code = "Optimal" /\ ~prm.polish) =>
          sol'.primal = x' /\ sol'.dual = y'
    ]_vars

C11_Witness ==
  /\ pc = "done" /\ sol.code = "Optimal" /\ ~prm.polish
  /\ sol.primal = x /\ x_next # x /\ i > 0

\* the three tests of the check block on the current state
OptimalityHolds == Optimality(pbm, prm, x, y, z)
PrimalCertificateHolds == PrimalInfeasibility(pbm, prm, VSub(y_next, y))
DualCertificateHolds == DualInfeasibility(pbm, prm, VSub(x_next, x))

\* C12: in a check block the first of optimality, primal infeasibility
\* certificate, dual infeasibility certificate that holds decides: optimality
\* gives Optimal (handed to the polisher when prm.polish) whatever the
\* certificates say; the primal certificate without optimality gives
\* PrimalInfeasible whatever the dual certificate says; DualInfeasible needs
\* both earlier tests to fail; with no test holding the loop goes on.
C12_ExitPriority ==
  [][(pc = "check" /\ i % prm.stop_check_iter = prm.stop_check_iter - 1) =>
       /\ OptimalityHolds =>
            /\ sol' = [code |-> "Optimal", primal |-> x, dual |-> y]
            /\ pc' = IF prm.polish THEN "polish" ELSE "done"
       /\ (~OptimalityHolds /\ PrimalCertificateHolds) =>
            pc' = "done" /\ sol' = Empty("PrimalInfeasible")
       /\ (~OptimalityHolds /\ ~PrimalCertificateHolds /\ DualCertificateHolds) =>
            pc' = "done" /\ sol' = Empty("DualInfeasible")
       /\ (pc' = "done" /\ sol'.code = "DualInfeasible") =>
            ~OptimalityHolds /\ ~PrimalCertificateHolds
       /\ (pc' = "done" /\ sol'.code = "PrimalInfeasible") => ~OptimalityHolds
       /\ (~OptimalityHolds /\ ~PrimalCertificateHolds /\ ~DualCertificateHolds) =>
            pc' = "loop" /\ sol' = sol
    ]_vars

C12_Witness ==
  /\ pc = "done" /\ sol.code = "PrimalInfeasible" /\ log # <<>>
  /\ ~OptimalityHolds /\ PrimalCertificateHolds /\ DualCertificateHolds

\* an Optimal exit taken while the dual certificate holds as well
OptimalOverCertificate ==
  /\ pc = "done" /\ sol.code = "Optimal" /\ log # <<>>
  /\ OptimalityHolds /\ DualCertificateHolds

\* C13: for the dual handed to polishQP (length m), nl and nu count the
\* negative and the positive entries, LU_idx has length nl + nu <= m, its first
\* nl entries are exactly the indices of the negative entries in increasing
\* order, its last nu entries exactly the indices of the positive entries in
\* increasing order; no index appears twice, every entry is an index of the
\* dual, and the index of a zero entry never appears.  (Indices are 1..m here,
\* 0..m-1 in the code.)
C13_ActiveSetIdentification ==
  \A k \in DOMAIN polished :
    LET dual == polished[k].before.dual
        act == polished[k].act
        LU == act.LU_idx
        Lower == {j \in DOMAIN dual : RLt(dual[j], Zero)}
        Upper == {j \in DOMAIN dual : RLt(Zero, dual[j])}
    IN  /\ act.nl = Cardinality(Lower) /\ act.nu = Cardinality(Upper)
        /\ Len(LU) = act.nl + act.nu /\ Len(LU) <= Len(dual)
        /\ {LU[a] : a \in 1..act.nl} = Lower
        /\ {LU[a] : a \in (act.nl + 1)..Len(LU)} = Upper
        /\ \A a, b \in 1..act.nl : a < b => LU[a] < LU[b]
        /\ \A a, b \in (act.nl + 1)..Len(LU) : a < b => LU[a] < LU[b]
        /\ \A a, b \in DOMAIN LU : a # b => LU[a] # LU[b]
        /\ \A a \in DOMAIN LU : LU[a] \in DOMAIN dual /\ dual[LU[a]] # Zero

\* a positive entry before a negative entry
C13_Witness ==
  /\ pc = "done" /\ Len(polished) = 1
  /\ polished[1].before.dual = <<Q(2), Q(-1)>>
  /\ polished[1].act.LU_idx = <<2, 1>>

\* C14: a polish that succeeds replaces sol.primal by the first n entries of
\* the refined vector t_hat, writes t_hat[n + j] to the dual entry LU_idx[j]
\* for every position j of LU_idx, leaves every dual entry that came in as
\* exactly 0 as it was, and does not modify the problem; t_hat is the result
\* of exactly polish_iter solves against the one factorization of the
\* perturbed matrix Hp, starting from zero.
C14_PolishWriteBack ==
  [][(pc = "polish" /\ pc' = "done" /\ sol'.code # "PolishFailed") =>
       LET n == Cols(pbm)
           rec == polished'[Len(polished')]
           t == rec.t_hat
           LU == rec.act.LU_idx
           sys == ReducedSystem(pbm, prm, rec.act)
           Hp_ldlt == LDLTLapack(sys.Hp)
           zero == [t_hat |-> VZero(n + Len(LU)), solves |-> 0]
       IN  /\ rec.before = sol /\ rec.act = ActiveSets(sol.dual)
           /\ Len(t) = n + Len(LU)
           /\ sol'.primal = SubSeq(t, 1, n)
           /\ Len(sol'.dual) = Len(sol.dual)
           /\ \A j \in DOMAIN LU : sol'.dual[LU[j]] = t[n + j]
           /\ \A k \in DOMAIN sol.dual :
                sol.dual[k] = Zero => sol'.dual[k] = sol.dual[k]
           /\ pbm' = pbm
           /\ rec.info = 0 /\ Hp_ldlt.info = 0
           /\ rec.solves = prm.polish_iter
           /\ t = Refine(Hp_ldlt, sys.H, sys.h, zero, prm.polish_iter).t_hat
           /\ prm.polish_iter = 0 => t = zero.t_hat
           /\ prm.polish_iter = 1 => MatVec(SymUpper(sys.Hp), t) = sys.h
    ]_vars

\* a polish of two solves with one active and one inactive constraint that
\* moves both the primal and the active dual entry
C14_Witness ==
  /\ pc = "done" /\ Len(polished) = 1 /\ sol.code # "PolishFailed"
  /\ polished[1].solves = 2 /\ prm.polish_iter = 2
  /\ polished[1].before.dual = <<Q(2), Zero>>
  /\ polished[1].act.LU_idx = <<1>>
  /\ sol.dual[2] = Zero /\ sol.dual[1] # Q(2)
  /\ sol.dual[1] = polished[1].t_hat[Cols(pbm) + 1]
  /\ sol.primal # polished[1].before.primal

\* the number of commits x = x_next, y = y_next, z = z_next made so far
CommitsMade == Cardinality({k \in DOMAIN log : log[k].exit = "none"})

\* z within the bounds and the dual sign-complementary to it
WithinBoundsAndComplementary(l, u, yv, zv) ==
  \A j \in DOMAIN zv :
    /\ RLe(l[j], zv[j]) /\ RLe(zv[j], u[j])
    /\ RLt(Zero, yv[j]) => zv[j] = u[j]
    /\ RLt(yv[j], Zero) => zv[j] = l[j]

\* C15: once a commit has been made, every constraint j has
\* l[j] <= z[j] <= u[j], y[j] > 0 only where z[j] = u[j] and y[j] < 0 only
\* where z[j] = l[j]; every iterate computed by an ADMM step has the same
\* property before it is committed.
C15_CommittedIterate ==
  /\ CommitsMade > 0 => WithinBoundsAndComplementary(pbm.l, pbm.u, y, z)
  /\ pc = "check" => WithinBoundsAndComplementary(pbm.l, pbm.u, y_next, z_next)

\* a committed iterate with one constraint active at its lower bound and one
\* at its upper bound, after at least two commits
C15_Witness ==
  /\ pc = "loop" /\ CommitsMade >= 2
  /\ \E j \in DOMAIN y : RLt(y[j], Zero) /\ z[j] = pbm.l[j]
  /\ \E j \in DOMAIN y : RLt(Zero, y[j]) /\ z[j] = pbm.u[j]

\* the first check is made on an initial iterate whose z lies outside the bounds
InitialIterateOffBounds ==
  /\ pc = "check" /\ CommitsMade = 0 /\ CheckDue(i, prm.stop_check_iter)
  /\ ~WithinBoundsAndComplementary(pbm.l, pbm.u, y, z)

=============================================================================
